---- MODULE Spec2Model ----
(***************************************************************************)
(* The flat-file vector retrieval component of the RAG demos               *)
(* (src/day15/backend.py and src/day16/backend.py): the chunker, the       *)
(* embedding gateway, the index store (rag_index.json and the RAG_INDEX    *)
(* cache), the /reindex handler and the retriever.                         *)
(*                                                                         *)
(* Texts are sequences of one-character strings.  Numbers the code holds   *)
(* as floats are exact rationals [n, d] here (d > 0, lowest terms).        *)
(* The handlers are coroutines: one action runs a handler from one await   *)
(* to the next, which is what the asyncio event loop runs without          *)
(* interleaving.                                                           *)
(***************************************************************************)
EXTENDS Integers, Sequences, FiniteSets, Bags, TLC

VARIABLES
    variant,    \* which demo runs: "day15" or "day16"
    corpus,     \* the files of data/docs, in os.walk order
    file,       \* rag_index.json: absent, the JSON document it holds, or bytes that do not parse
    RAG_INDEX,  \* the module-level in-memory cache
    task,       \* the requests in flight: a bag of suspended coroutines
    last,       \* the response of the step just taken, until it has gone out
    pinned,     \* the index the first retrieve since the last reindex used (observer)
    emptied,    \* the latest completed reindex ran on a directory with no files,
                \* and its artifact has not been damaged since (observer)
    probe,      \* a function called on its own, with its arguments and what it returned
    raw_history,        \* day 7: every message of the conversation
    pending_messages,   \* day 7: the messages no summary covers yet
    summaries,          \* day 7: the summaries made so far
    mcp,        \* the MCP server process: its name, its initialized flag, whether it runs
    memory      \* day 11: the rows of the memory table, each a <<key, value>>

vars == <<variant, corpus, file, RAG_INDEX, task, last, pinned, emptied, probe,
          raw_history, pending_messages, summaries, mcp, memory>>

\* the state of the other demos, which the RAG server and its functions leave alone
demos == <<raw_history, pending_messages, summaries, mcp, memory>>

----------------------------------------------------------------------------
(* Bounds of the model *)

\* the number of requests that can be in flight at once
MaxTasks == 2

\* top_k is drawn from -1 .. MaxTopK
MaxTopK == 2

\* the texts chunk_text is called on have at most MaxTextLen characters, and
\* its max_chars is drawn from 1 .. MaxSize
MaxTextLen == 4
MaxSize == 4

\* the token chunker is called on at most MaxTokens tokens, with a chunk_size
\* in 1 .. MaxChunkSize
MaxTokens == 6
MaxChunkSize == 3

\* the day 7 conversation takes requests while its history has room for one
\* more exchange within this many messages
MaxHistory == 12

\* the ids of the requests the MCP server reads are drawn from 1 .. MaxId
MaxId == 2

\* the components of the raw vectors embed_text is called on lie in
\* -MaxComp .. MaxComp
MaxComp == 5

\* chunk_text's default max_chars, the budget /reindex chunks with: 800 in the
\* source, scaled down with the texts of the model
DefaultMaxChars == 8

----------------------------------------------------------------------------
(* Exact rationals *)

Abs(x) == IF x < 0 THEN -x ELSE x

RECURSIVE Gcd(_, _)
Gcd(a, b) == IF b = 0 THEN a ELSE Gcd(b, a % b)

\* n/d in lowest terms with a positive denominator (d # 0)
Frac(n, d) ==
    LET g == Gcd(Abs(n), Abs(d))
        s == IF d < 0 THEN -1 ELSE 1
    IN  [n |-> (s * n) \div g, d |-> (s * d) \div g]

FracAdd(a, b) == Frac(a.n * b.d + b.n * a.d, a.d * b.d)
FracMul(a, b) == Frac(a.n * b.n, a.d * b.d)
FracGeq(a, b) == a.n * b.d >= b.n * a.d
FracGt(a, b) == a.n * b.d > b.n * a.d
Zero == Frac(0, 1)
One == Frac(1, 1)

RECURSIVE FracSum(_)
FracSum(s) == IF s = <<>> THEN Zero ELSE FracAdd(s[1], FracSum(Tail(s)))

----------------------------------------------------------------------------
(* Strings *)

Rep(c, n) == [i \in 1..n |-> c]

Whitespace == {" ", "\n", "\r"}

\* the characters str.splitlines() ends a line at
LineEnds == {"\n", "\r"}

\* str.strip()
Strip(s) ==
    LET keep == {i \in 1..Len(s) : s[i] \notin Whitespace}
    IN  IF keep = {} THEN <<>>
        ELSE LET lo == CHOOSE i \in keep : \A j \in keep : i <= j
                 hi == CHOOSE i \in keep : \A j \in keep : j <= i
             IN  SubSeq(s, lo, hi)

\* str.splitlines(): a line ends at "\n", at "\r" or at the pair "\r\n"; the
\* line ends are dropped, and no empty line follows the last one
RECURSIVE SplitFrom(_, _, _, _)
SplitFrom(s, i, cur, acc) ==
    IF i > Len(s) THEN (IF cur # <<>> THEN Append(acc, cur) ELSE acc)
    ELSE IF s[i] = "\r" /\ i < Len(s) /\ s[i + 1] = "\n"
         THEN SplitFrom(s, i + 2, <<>>, Append(acc, cur))
    ELSE IF s[i] \in LineEnds THEN SplitFrom(s, i + 1, <<>>, Append(acc, cur))
    ELSE SplitFrom(s, i + 1, Append(cur, s[i]), acc)

SplitLines(s) == SplitFrom(s, 1, <<>>, <<>>)

----------------------------------------------------------------------------
(* Chunker *)

\* a buffer flushed only once it is over the budget
RECURSIVE ChunkLoop_LateFlush(_, _, _, _, _)
ChunkLoop_LateFlush(lines, k, chunks, buf, max_chars) ==
    IF k > Len(lines)
    THEN IF Strip(buf) # <<>> THEN Append(chunks, Strip(buf)) ELSE chunks
    ELSE LET line == lines[k] IN
         IF Len(buf) > max_chars
         THEN ChunkLoop_LateFlush(lines, k + 1,
                        IF Strip(buf) # <<>> THEN Append(chunks, Strip(buf)) ELSE chunks,
                        line \o <<"\n">>, max_chars)
         ELSE ChunkLoop_LateFlush(lines, k + 1, chunks, buf \o line \o <<"\n">>, max_chars)

\* the newline that follows the line left out of the count
RECURSIVE ChunkLoop_NewlineUncounted(_, _, _, _, _)
ChunkLoop_NewlineUncounted(lines, k, chunks, buf, max_chars) ==
    IF k > Len(lines)
    THEN IF Strip(buf) # <<>> THEN Append(chunks, Strip(buf)) ELSE chunks
    ELSE LET line == lines[k] IN
         IF Len(buf) + Len(line) > max_chars
         THEN ChunkLoop_NewlineUncounted(lines, k + 1,
                        IF Strip(buf) # <<>> THEN Append(chunks, Strip(buf)) ELSE chunks,
                        line \o <<"\n">>, max_chars)
         ELSE ChunkLoop_NewlineUncounted(lines, k + 1, chunks,
                        buf \o line \o <<"\n">>, max_chars)

\* a buffer flushed whenever it holds anything, whitespace included
RECURSIVE ChunkLoop_KeepsBlank(_, _, _, _, _)
ChunkLoop_KeepsBlank(lines, k, chunks, buf, max_chars) ==
    IF k > Len(lines)
    THEN IF buf # <<>> THEN Append(chunks, Strip(buf)) ELSE chunks
    ELSE LET line == lines[k] IN
         IF Len(buf) + Len(line) + 1 > max_chars
         THEN ChunkLoop_KeepsBlank(lines, k + 1,
                        IF buf # <<>> THEN Append(chunks, Strip(buf)) ELSE chunks,
                        line \o <<"\n">>, max_chars)
         ELSE ChunkLoop_KeepsBlank(lines, k + 1, chunks, buf \o line \o <<"\n">>, max_chars)

\* the line that takes the buffer over the budget left out of the next buffer
RECURSIVE ChunkLoop_DropsLine(_, _, _, _, _)
ChunkLoop_DropsLine(lines, k, chunks, buf, max_chars) ==
    IF k > Len(lines)
    THEN IF Strip(buf) # <<>> THEN Append(chunks, Strip(buf)) ELSE chunks
    ELSE LET line == lines[k] IN
         IF Len(buf) + Len(line) + 1 > max_chars
         THEN ChunkLoop_DropsLine(lines, k + 1,
                        IF Strip(buf) # <<>> THEN Append(chunks, Strip(buf)) ELSE chunks,
                        <<>>, max_chars)
         ELSE ChunkLoop_DropsLine(lines, k + 1, chunks, buf \o line \o <<"\n">>, max_chars)

\* for line in text.splitlines(): ...; the last buffer is flushed after the loop
RECURSIVE ChunkLoop(_, _, _, _, _)
ChunkLoop(lines, k, chunks, buf, max_chars) ==
    IF k > Len(lines)
    THEN IF Strip(buf) # <<>> THEN Append(chunks, Strip(buf)) ELSE chunks
    ELSE LET line == lines[k] IN
         IF Len(buf) + Len(line) + 1 > max_chars
         THEN ChunkLoop(lines, k + 1,
                        IF Strip(buf) # <<>> THEN Append(chunks, Strip(buf)) ELSE chunks,
                        line \o <<"\n">>, max_chars)
         ELSE ChunkLoop(lines, k + 1, chunks, buf \o line \o <<"\n">>, max_chars)

chunk_text(text, max_chars) == ChunkLoop(SplitLines(text), 1, <<>>, <<>>, max_chars)

----------------------------------------------------------------------------
(* Embedding gateway *)

\* The hosted embedding service, as a deterministic stub: the raw vector of
\* a text is decided by the text's first character.
RawEmbedding(text) ==
    IF text = <<>> THEN <<0, 0>>
    ELSE CASE text[1] = "a" -> <<3, 4>>
           [] text[1] = "b" -> <<8, 6>>
           [] text[1] = "c" -> <<5, 0>>
           [] OTHER -> <<0, 0>>

RECURSIVE SumSq(_)
SumSq(vec) == IF vec = <<>> THEN 0 ELSE vec[1] * vec[1] + SumSq(Tail(vec))

\* math.sqrt, for the sums of squares that are perfect squares
Sqrt(n) == CHOOSE r \in 0..n : r * r = n

\* a raw vector of norm zero answered with the first unit vector
Normalize_ZeroAsUnit(vec) ==
    LET root == Sqrt(SumSq(vec))
    IN  IF root = 0 THEN [k \in 1..Len(vec) |-> IF k = 1 THEN One ELSE Zero]
        ELSE [k \in 1..Len(vec) |-> Frac(vec[k], root)]

\* the components divided by the sum of squares, the root not taken
Normalize_NoSqrt(vec) ==
    LET sq == SumSq(vec)
        norm == IF sq = 0 THEN 1 ELSE sq
    IN  [k \in 1..Len(vec) |-> Frac(vec[k], norm)]

\* norm = math.sqrt(sum(v*v for v in vec)) or 1.0; [v / norm for v in vec]
Normalize(vec) ==
    LET root == Sqrt(SumSq(vec))
        norm == IF root = 0 THEN 1 ELSE root
    IN  [k \in 1..Len(vec) |-> Frac(vec[k], norm)]

\* embed_text, when the service answers
embed_text(text) == Normalize(RawEmbedding(text))

Min(a, b) == IF a < b THEN a ELSE b

\* float(sum(x * y for x, y in zip(a, b)))
cosine_sim(a, b) ==
    FracSum([k \in 1..Min(Len(a), Len(b)) |-> FracMul(a[k], b[k])])

----------------------------------------------------------------------------
(* Index store *)

\* RAG_INDEX = {"chunks": []}
EmptyCache == [chunks |-> <<>>]

\* rag_index.json does not exist
Absent == [exists |-> FALSE]

\* rag_index.json holds bytes that json.load rejects
Garbled == [exists |-> TRUE, parses |-> FALSE]

\* json.load(f) returns
Parses(f) == f.exists /\ "data" \in DOMAIN f

\* an index without chunks not written: the artifact keeps what it held
save_index_SkipEmpty(index) ==
    IF index.chunks = <<>> THEN file ELSE [exists |-> TRUE, data |-> index]

\* json.dump(index, f, indent=2) into a freshly truncated file
save_index(index) == [exists |-> TRUE, data |-> index]

\* float(x) of a number read back from JSON
Float(x) == Frac(x.n, x.d)

\* json.load, then every chunk's embedding converted to floats
ParseIndex(f) ==
    [f.data EXCEPT !.chunks =
        [k \in 1..Len(f.data.chunks) |->
            [f.data.chunks[k] EXCEPT !.embedding =
                [j \in 1..Len(f.data.chunks[k].embedding) |->
                    Float(f.data.chunks[k].embedding[j])]]]]

\* load_index(): the new value of RAG_INDEX, which is also what it returns.
\* Day 15 resets the cache when the file is absent; day 16 leaves it alone.
load_index(v, f, cache) ==
    IF f.exists THEN ParseIndex(f)
    ELSE IF v = "day15" THEN EmptyCache
    ELSE cache

\* the cache never trusted: every call reads the artifact again
UsesCache_Never(cache) == FALSE

\* index = RAG_INDEX if RAG_INDEX["chunks"] else load_index()
UsesCache(cache) == cache.chunks # <<>>

SelectIndex(v, f, cache) == IF UsesCache(cache) THEN cache ELSE load_index(v, f, cache)

\* load_index() is called and json.load raises, before RAG_INDEX is assigned
LoadRaises(f, cache) == ~UsesCache(cache) /\ f.exists /\ ~Parses(f)

\* the exception caught and the index taken to be empty
LoadFailure_AsEmpty(kind, since) ==
    [kind |-> kind, outcome |-> "ok", result |-> [chunks |-> <<>>], chunks |-> 0,
     calls |-> 0, load |-> "garbled", nothing |-> FALSE, since_emptied |-> since,
     crossed |-> FALSE]

\* what the caller of a handler gets when load_index raises in it: no handler
\* catches the exception
LoadFailure(kind, since) ==
    [kind |-> kind, outcome |-> "error", cause |-> "parse",
     calls |-> 0, load |-> "garbled", nothing |-> FALSE, since_emptied |-> since,
     crossed |-> FALSE]

----------------------------------------------------------------------------
(* Retriever, from the query embedding on *)

\* scored = [{"chunk": ch, "score": cosine_sim(q_emb, ch["embedding"])} ...]
Scored(index, q_emb) ==
    [k \in 1..Len(index.chunks) |->
        [chunk |-> index.chunks[k], score |-> cosine_sim(q_emb, index.chunks[k].embedding)]]

\* an insertion before the equal scores reverses the order of ties
RECURSIVE InsertDesc_TiesReversed(_, _)
InsertDesc_TiesReversed(sorted, x) ==
    IF sorted = <<>> THEN <<x>>
    ELSE IF FracGt(sorted[1].score, x.score)
         THEN <<sorted[1]>> \o InsertDesc_TiesReversed(Tail(sorted), x)
         ELSE <<x>> \o sorted

\* x put into a list already sorted by score descending, after every element
\* whose score is not smaller: equal scores keep their order of arrival
RECURSIVE InsertDesc(_, _)
InsertDesc(sorted, x) ==
    IF sorted = <<>> THEN <<x>>
    ELSE IF FracGeq(sorted[1].score, x.score)
         THEN <<sorted[1]>> \o InsertDesc(Tail(sorted), x)
         ELSE <<x>> \o sorted

RECURSIVE SortFrom(_, _, _)
SortFrom(s, k, acc) ==
    IF k > Len(s) THEN acc ELSE SortFrom(s, k + 1, InsertDesc(acc, s[k]))

\* scored.sort(key=lambda x: x["score"], reverse=True): stable
SortByScoreDesc(s) == SortFrom(s, 1, <<>>)

\* s[:k] with Python's meaning of a negative k
SliceTo(s, k) ==
    LET n == IF k >= 0 THEN Min(k, Len(s))
             ELSE IF Len(s) + k > 0 THEN Len(s) + k ELSE 0
    IN  SubSeq(s, 1, n)

\* threshold: None, or a float
NoThreshold == [some |-> FALSE]
Threshold(x) == [some |-> TRUE, v |-> x]

\* a strict comparison drops a result whose score equals the threshold
PassesThreshold_Strict(s, threshold) == FracGt(s.score, threshold.v)

PassesThreshold(s, threshold) == FracGeq(s.score, threshold.v)

\* top = scored[:top_k]; with a threshold, top = [s for s in top if s["score"] >= threshold]
TopOf(sorted, top_k, threshold) ==
    LET top == SliceTo(sorted, top_k)
    IN  IF threshold.some
        THEN SelectSeq(top, LAMBDA s : PassesThreshold(s, threshold))
        ELSE top

UsedChunks(top) ==
    [k \in 1..Len(top) |->
        [doc |-> top[k].chunk.doc, chunk_index |-> top[k].chunk.chunk_index,
         text |-> top[k].chunk.text, score |-> top[k].score]]

\* what retrieve returns once the query is embedded
RetrieveResult(v, index, q_emb, top_k, threshold) ==
    LET sorted == SortByScoreDesc(Scored(index, q_emb))
        used == UsedChunks(TopOf(sorted, top_k, threshold))
    IN  IF v = "day15"
        THEN [chunks |-> used, all_scores |-> [k \in 1..Len(sorted) |-> sorted[k].score]]
        ELSE [chunks |-> used]

\* what retrieve returns when the index has no chunks
EmptyResult(v) ==
    IF v = "day15" THEN [chunks |-> <<>>, all_scores |-> <<>>] ELSE [chunks |-> <<>>]

----------------------------------------------------------------------------
(* The corpus directory data/docs *)

\* str.lower(), on the letters the file names use
LowerChar(c) ==
    CASE c = "T" -> "t" [] c = "X" -> "x" [] c = "M" -> "m" [] c = "D" -> "d"
      [] OTHER -> c

Lower(s) == [k \in 1..Len(s) |-> LowerChar(s[k])]

EndsWith(s, suffix) ==
    /\ Len(s) >= Len(suffix)
    /\ SubSeq(s, Len(s) - Len(suffix) + 1, Len(s)) = suffix

\* fname.lower().endswith((".txt", ".md"))
IsDoc(fname) ==
    \/ EndsWith(Lower(fname), <<".", "t", "x", "t">>)
    \/ EndsWith(Lower(fname), <<".", "m", "d">>)

\* a line of half the chunk budget: two of them do not fit one chunk
HalfLine(c) == Rep(c, DefaultMaxChars \div 2)

FileA == [name |-> <<"a", ".", "t", "x", "t">>, readable |-> TRUE, text |-> <<"a">>]
FileBig ==
    [name |-> <<"b", ".", "M", "D">>, readable |-> TRUE,
     text |-> HalfLine("b") \o <<"\n">> \o HalfLine("a") \o <<"\n">>]
FileNotes == [name |-> <<"n", ".", "p", "d", "f">>, readable |-> TRUE, text |-> <<"c">>]
FileLocked == [name |-> <<"l", ".", "t", "x", "t">>, readable |-> FALSE, text |-> <<>>]
FileBlank == [name |-> <<"e", ".", "m", "d">>, readable |-> TRUE, text |-> <<" ", "\n">>]

\* the directory listings the environment can leave in data/docs
Corpora ==
    { <<>>,
      <<FileBlank>>,
      <<FileA>>,
      <<FileBlank, FileA, FileNotes, FileBig>>,
      <<FileA, FileLocked>> }

(* The requests' arguments *)

Queries == { <<"a">>, <<"c">> }
TopKs == (-1)..MaxTopK
Thresholds == { NoThreshold, Threshold(Frac(4, 5)) }

----------------------------------------------------------------------------
(* Coroutines *)

NoResp == [kind |-> "none"]

\* no function is called on its own
NoCall == [fn |-> "none"]

\* no response is on its way out: the event loop picks its next step
Idle == last = NoResp
NoPin == [set |-> FALSE]

\* the suspended coroutines, and whether the server takes one more request
Suspended(pc) == {r \in BagToSet(task) : r.pc = pc}
Accepts == BagCardinality(task) < MaxTasks

\* coroutine r is resumed and returns or raises; coroutine r suspends
Without(r) == task (-) SetToBag({r})
With(B, r) == B (+) SetToBag({r})

\* every suspended retrieve was called before the reindex that now completes
Cross(r) == IF r.pc = "retrieve" THEN [r EXCEPT !.crossed = TRUE] ELSE r

Crossed(B) ==
    LET S == BagToSet(B)
        Copies(x) == IF x \in S THEN B[x] ELSE 0
    IN  [x \in {Cross(r) : r \in S} |->
            IF x.pc = "retrieve"
            THEN Copies(x) + Copies([x EXCEPT !.crossed = FALSE])
            ELSE Copies(x)]

\* every suspended reindex is in flight while another one is called
Overlap(r) == IF r.pc = "reindex" THEN [r EXCEPT !.overlap = TRUE] ELSE r

Overlapped(B) ==
    LET S == BagToSet(B)
        Copies(x) == IF x \in S THEN B[x] ELSE 0
    IN  [x \in {Overlap(r) : r \in S} |->
            IF x.pc = "reindex"
            THEN Copies(x) + Copies([x EXCEPT !.overlap = FALSE])
            ELSE Copies(x)]

\* The /reindex loop from the top of file number fi to its next await, to the
\* exception open() raises, or to the end of the walk.
RECURSIVE Walk(_, _, _)
Walk(files, fi, st) ==
    IF fi > Len(files) THEN [st EXCEPT !.status = "finished"]
    ELSE IF ~IsDoc(files[fi].name) THEN Walk(files, fi + 1, st)
    ELSE IF ~files[fi].readable
         THEN [st EXCEPT !.status = "raised", !.doc_count = @ + 1]
    ELSE LET cur == chunk_text(files[fi].text, DefaultMaxChars) IN
         IF cur = <<>>
         THEN Walk(files, fi + 1, [st EXCEPT !.doc_count = @ + 1])
         ELSE [st EXCEPT !.status = "await", !.doc_count = @ + 1,
                         !.fi = fi, !.cur = cur, !.i = 0]

\* f"chunk-{chunk_id}"
ChunkId(n) == <<"chunk-", n>>

\* the id taken from the chunk's position in its document
WithChunk_IdPerDoc(st, embedding) ==
    [st EXCEPT
        !.chunks = Append(@, [id |-> ChunkId(st.i),
                              doc |-> st.files[st.fi].name,
                              chunk_index |-> st.i,
                              text |-> st.cur[st.i + 1],
                              embedding |-> embedding]),
        !.chunk_id = @ + 1]

\* chunk_index taken from the running chunk counter
WithChunk_GlobalIndex(st, embedding) ==
    [st EXCEPT
        !.chunks = Append(@, [id |-> ChunkId(st.chunk_id),
                              doc |-> st.files[st.fi].name,
                              chunk_index |-> st.chunk_id,
                              text |-> st.cur[st.i + 1],
                              embedding |-> embedding]),
        !.chunk_id = @ + 1]

\* chunks.append({...}); chunk_id += 1
WithChunk(st, embedding) ==
    [st EXCEPT
        !.chunks = Append(@, [id |-> ChunkId(st.chunk_id),
                              doc |-> st.files[st.fi].name,
                              chunk_index |-> st.i,
                              text |-> st.cur[st.i + 1],
                              embedding |-> embedding]),
        !.chunk_id = @ + 1]

\* after a chunk is appended: the next chunk of the same file, or the walk goes on
AfterChunk(st) ==
    IF st.i + 1 < Len(st.cur)
    THEN [st EXCEPT !.i = @ + 1]
    ELSE Walk(st.files, st.fi + 1, st)

\* index = {"chunks": chunks, "doc_count": doc_count}
BuiltIndex(st) == [chunks |-> st.chunks, doc_count |-> st.doc_count]

\* the cache not refreshed after the artifact is written
StoreAfterReindex_NoRefresh(v, f, cache, index) ==
    [file |-> save_index(index), cache |-> cache]

\* save_index(index); load_index(): the file and the cache after them
StoreAfterReindex(v, f, cache, index) ==
    LET f2 == save_index(index)
    IN  [file |-> f2, cache |-> load_index(v, f2, cache)]

\* the chunks embedded so far written out when the handler fails
StoreAfterAbort_SavePartial(v, f, cache, index) ==
    [file |-> save_index(index), cache |-> load_index(v, save_index(index), cache)]

\* an exception leaves the handler before save_index: nothing is written
StoreAfterAbort(v, f, cache, index) == [file |-> f, cache |-> cache]

\* the chunks built so far put into the resident index as they are made
ResidentWhileBuilding_InPlace(cache, st) ==
    IF st.chunks = <<>> THEN cache ELSE BuiltIndex(st)

\* every chunk written to the artifact as soon as it is embedded
ArtifactWhileBuilding_Streamed(f, st) ==
    IF st.chunks = <<>> THEN f
    ELSE [exists |-> TRUE,
          data |-> [chunks |-> (IF Parses(f) THEN f.data.chunks ELSE <<>>)
                                  \o <<st.chunks[Len(st.chunks)]>>,
                    doc_count |-> st.doc_count]]

\* save_index is called once, after the walk: the artifact is the one it was
\* while the handler is suspended
ArtifactWhileBuilding(f, st) == f

\* chunks = []: the handler appends to a list of its own, the resident index
\* is the one it was while the handler is suspended
ResidentWhileBuilding(cache, st) == cache

\* The handler goes on from state st of its loop, the other coroutines being
\* rest: it suspends at the next embedding call, returns, or raises.
ReindexGoOn(rest, st) ==
    /\ pinned' = IF st.status = "finished" THEN NoPin ELSE pinned
    /\ IF st.status = "await"
       THEN /\ task' = With(rest, st)
            /\ last' = NoResp
            /\ RAG_INDEX' = ResidentWhileBuilding(RAG_INDEX, st)
            /\ file' = ArtifactWhileBuilding(file, st)
            /\ UNCHANGED emptied
       ELSE IF st.status = "raised"
       THEN LET store == StoreAfterAbort(variant, file, RAG_INDEX, BuiltIndex(st)) IN
            /\ task' = rest
            /\ last' = [kind |-> "reindex", outcome |-> "error", cause |-> "open",
                        embedded |-> Len(st.chunks)]
            /\ file' = store.file
            /\ RAG_INDEX' = store.cache
            /\ UNCHANGED emptied
       ELSE LET store == StoreAfterReindex(variant, file, RAG_INDEX, BuiltIndex(st)) IN
            /\ task' = Crossed(rest)
            /\ last' = [kind |-> "reindex", outcome |-> "ok",
                        doc_count |-> st.doc_count, chunk_count |-> Len(st.chunks),
                        index |-> BuiltIndex(st), overlap |-> st.overlap]
            /\ file' = store.file
            /\ RAG_INDEX' = store.cache
            /\ emptied' = (st.files = <<>>)

\* POST /reindex, to its first await
ReindexStart ==
    /\ Idle
    /\ Accepts
    /\ ReindexGoOn(Overlapped(task),
                   Walk(corpus, 1,
                        [pc |-> "reindex", status |-> "start", files |-> corpus,
                         fi |-> 0, cur |-> <<>>, i |-> 0,
                         chunks |-> <<>>, doc_count |-> 0, chunk_id |-> 0,
                         overlap |-> Suspended("reindex") # {}]))
    /\ UNCHANGED <<demos, probe, variant, corpus>>

\* embed_text returned the chunk's vector
ReindexEmbedded(r) ==
    /\ Idle
    /\ ReindexGoOn(Without(r), AfterChunk(WithChunk(r, embed_text(r.cur[r.i + 1]))))
    /\ UNCHANGED <<demos, probe, variant, corpus>>

\* embed_text raised: the exception leaves the handler
ReindexEmbedFailed(r) ==
    /\ Idle
    /\ LET store == StoreAfterAbort(variant, file, RAG_INDEX, BuiltIndex(r)) IN
       /\ file' = store.file
       /\ RAG_INDEX' = store.cache
    /\ task' = Without(r)
    /\ last' = [kind |-> "reindex", outcome |-> "error", cause |-> "embed",
                embedded |-> Len(r.chunks)]
    /\ UNCHANGED <<demos, probe, variant, corpus, pinned, emptied>>

----------------------------------------------------------------------------
(* retrieve_chunks (day 15) / retrieve (day 16) *)

\* the emptiness check left out: the query is embedded whatever the index holds
ReturnsEarly_Never(index) == FALSE

\* if not index["chunks"]: return {"chunks": [], ...}
ReturnsEarly(index) == index.chunks = <<>>

\* whether the handler called load_index, and on which state of the artifact;
\* what load_index returned is then the index the handler works on
LoadCall(f, cache) ==
    IF UsesCache(cache) THEN "none" ELSE IF f.exists THEN "present" ELSE "absent"

\* the cache and the artifact hold no chunk
NothingIndexed(f, cache) ==
    /\ cache.chunks = <<>>
    /\ ~f.exists \/ (Parses(f) /\ f.data.chunks = <<>>)

\* the observer pins the index of the first retrieve after a reindex or a restart
Pin(index) == IF pinned.set THEN pinned ELSE [set |-> TRUE, index |-> index]

\* the call, to the await of the query embedding or to the early return
RetrieveStart ==
    /\ Idle
    /\ Accepts
    /\ IF LoadRaises(file, RAG_INDEX)
       THEN /\ last' = LoadFailure("retrieve", emptied)
            /\ UNCHANGED <<RAG_INDEX, pinned, task>>
       ELSE
       LET index == SelectIndex(variant, file, RAG_INDEX)
           seen == [index |-> index,
                    load |-> LoadCall(file, RAG_INDEX),
                    nothing |-> NothingIndexed(file, RAG_INDEX),
                    since_emptied |-> emptied,
                    crossed |-> FALSE]
       IN  /\ RAG_INDEX' = index
           /\ pinned' = Pin(index)
           /\ IF ReturnsEarly(index)
              THEN /\ \E q \in Queries, k \in TopKs, th \in Thresholds :
                        last' = [kind |-> "retrieve", outcome |-> "ok", question |-> q,
                                 top_k |-> k, threshold |-> th,
                                 result |-> EmptyResult(variant),
                                 calls |-> 0] @@ seen
                   /\ UNCHANGED task
              ELSE /\ task' = With(task, [pc |-> "retrieve"] @@ seen)
                   /\ last' = NoResp
    /\ UNCHANGED <<demos, probe, variant, corpus, file, emptied>>

\* what the suspended retrieve r saw when it was called
Seen(r) ==
    [index |-> r.index, load |-> r.load, nothing |-> r.nothing,
     since_emptied |-> r.since_emptied, crossed |-> r.crossed]

\* the cut made on the index's own chunk list, which is the cache's while the
\* cache still is the index the retrieve works on
ResidentAfterScoring_InPlace(cache, index, top_k) ==
    IF cache = index THEN [cache EXCEPT !.chunks = SliceTo(@, top_k)] ELSE cache

\* scored is a new list of new dicts, sorted and cut on its own: the index the
\* retrieve works on, and with it the cache, is only read
ResidentAfterScoring(cache, index, top_k) == cache

\* embed_text(question) returned: score, sort, cut, filter, return
RetrieveEmbedded(r) ==
    /\ Idle
    /\ \E q \in Queries, k \in TopKs, th \in Thresholds :
          /\ last' = [kind |-> "retrieve", outcome |-> "ok", question |-> q,
                      top_k |-> k, threshold |-> th,
                      result |-> RetrieveResult(variant, r.index, embed_text(q), k, th),
                      calls |-> 1] @@ Seen(r)
          /\ RAG_INDEX' = ResidentAfterScoring(RAG_INDEX, r.index, k)
    /\ task' = Without(r)
    /\ UNCHANGED <<demos, probe, variant, corpus, file, pinned, emptied>>

\* the exception caught in the handler, which answers as on an empty index
RetrieveFailure_Swallowed(v, r) ==
    [kind |-> "retrieve", outcome |-> "ok", result |-> EmptyResult(v),
     calls |-> 1] @@ Seen(r)

\* q_emb = await embed_text(question), outside any try: what the caller gets
\* when embed_text raises
RetrieveFailure(v, r) ==
    [kind |-> "retrieve", outcome |-> "error", cause |-> "embed",
     calls |-> 1] @@ Seen(r)

\* embed_text(question) raised: the exception leaves the handler
RetrieveEmbedFailed(r) ==
    /\ Idle
    /\ last' = RetrieveFailure(variant, r)
    /\ task' = Without(r)
    /\ UNCHANGED <<demos, probe, variant, corpus, file, RAG_INDEX, pinned, emptied>>

----------------------------------------------------------------------------
(* GET /health *)

\* idx = RAG_INDEX if RAG_INDEX["chunks"] else load_index();
\* return {"status": "ok", "chunks": len(idx.get("chunks", [])), ...}
Health ==
    /\ Idle
    /\ IF LoadRaises(file, RAG_INDEX)
       THEN /\ last' = LoadFailure("health", emptied)
            /\ UNCHANGED RAG_INDEX
       ELSE LET index == SelectIndex(variant, file, RAG_INDEX)
            IN  /\ RAG_INDEX' = index
                /\ last' = [kind |-> "health", outcome |-> "ok", status |-> "ok",
                            chunks |-> Len(index.chunks)]
    /\ UNCHANGED <<demos, probe, variant, corpus, file, task, pinned, emptied>>

----------------------------------------------------------------------------
(* Environment *)

\* the documents in data/docs are replaced while no /reindex walks them
SetCorpus ==
    /\ Idle
    /\ Suspended("reindex") = {}
    /\ \E c \in Corpora : c # corpus /\ corpus' = c
    /\ last' = NoResp
    /\ UNCHANGED <<demos, probe, variant, file, RAG_INDEX, task, pinned, emptied>>

\* rag_index.json is removed
DeleteArtifact ==
    /\ Idle
    /\ file.exists
    /\ file' = Absent
    /\ last' = NoResp
    /\ UNCHANGED <<demos, probe, variant, corpus, RAG_INDEX, task, pinned, emptied>>

\* rag_index.json is overwritten from outside with bytes that are not JSON
CorruptArtifact ==
    /\ Idle
    /\ file # Garbled
    /\ file' = Garbled
    /\ emptied' = FALSE
    /\ last' = NoResp
    /\ UNCHANGED <<demos, probe, variant, corpus, RAG_INDEX, task, pinned>>

\* the process is restarted: the module is loaded again, no request survives
Restart ==
    /\ Idle
    /\ RAG_INDEX' = EmptyCache
    /\ task' = EmptyBag
    /\ last' = NoResp
    /\ pinned' = NoPin
    /\ UNCHANGED <<demos, probe, variant, corpus, file, emptied>>

\* the response of the step just taken goes out to its caller
Respond ==
    /\ ~Idle
    /\ last' = NoResp
    /\ UNCHANGED <<demos, probe, variant, corpus, file, RAG_INDEX, task, pinned, emptied>>

\* the other demos are not running
NoDemo ==
    /\ raw_history = <<>>
    /\ pending_messages = <<>>
    /\ summaries = <<>>
    /\ mcp = [name |-> "none", initialized |-> FALSE, alive |-> FALSE]
    /\ memory = {}

----------------------------------------------------------------------------
(* Specification *)

Init ==
    /\ variant \in {"day15", "day16"}
    /\ corpus \in Corpora
    /\ file = Absent
    /\ RAG_INDEX = EmptyCache
    /\ task = EmptyBag
    /\ last = NoResp
    /\ pinned = NoPin
    /\ emptied = FALSE
    /\ probe = NoCall
    /\ NoDemo

Next ==
    \/ ReindexStart
    \/ \E r \in Suspended("reindex") : ReindexEmbedded(r)
    \/ \E r \in Suspended("reindex") : ReindexEmbedFailed(r)
    \/ RetrieveStart
    \/ \E r \in Suspended("retrieve") : RetrieveEmbedded(r)
    \/ \E r \in Suspended("retrieve") : RetrieveEmbedFailed(r)
    \/ Health
    \/ SetCorpus
    \/ DeleteArtifact
    \/ CorruptArtifact
    \/ Restart
    \/ Respond

Spec == Init /\ [][Next]_vars

----------------------------------------------------------------------------
(* The functions, called on their own *)

\* the server's variables, which a function called on its own leaves alone
server == <<variant, corpus, file, RAG_INDEX, task, last, pinned, emptied>>

\* the characters of the texts: two letters, a blank, the two line ends
Alphabet == {"a", "b", " ", "\n", "\r"}

\* every text of at most MaxTextLen characters
Texts == UNION {[1..n -> Alphabet] : n \in 0..MaxTextLen}

\* chunk_text(text, max_chars)
ChunkCall ==
    /\ probe = NoCall
    /\ \E text \in Texts, max_chars \in 1..MaxSize :
          probe' = [fn |-> "chunk_text", text |-> text, max_chars |-> max_chars,
                    chunks |-> chunk_text(text, max_chars)]
    /\ UNCHANGED <<server, demos>>

\* the raw vectors of the service: the integer vectors whose norm is an integer
RawVectors ==
    { vec \in (-MaxComp..MaxComp) \X (-MaxComp..MaxComp) :
        \E r \in 0..(2 * MaxComp) : r * r = SumSq(vec) }

\* embed_text when the service answers raw for one text and other for another
EmbedCall ==
    /\ probe = NoCall
    /\ \E raw \in RawVectors, other \in RawVectors :
          probe' = [fn |-> "embed_text", raw |-> raw, other |-> other,
                    vector |-> Normalize(raw), other_vector |-> Normalize(other)]
    /\ UNCHANGED <<server, demos>>

\* a prompt is a sequence of parts: literal text of the template, or a value
\* put into it
Lit(s) == [lit |-> s]
Val(x) == [val |-> x]

\* "sep".join(items), each item a sequence of parts
RECURSIVE Join(_, _)
Join(sep, items) ==
    IF items = <<>> THEN <<>>
    ELSE IF Len(items) = 1 THEN items[1]
    ELSE items[1] \o <<sep>> \o Join(sep, Tail(items))

\* f"[{c['doc']} #{c['chunk_index']}] {c['text']}" (day 15),
\* f"[{cid}] {c['text']}" with cid = f"{c['doc']}#{c['chunk_index']}" (day 16)
ContextText(v, c) ==
    <<Lit("["), Val(c.doc), Lit(IF v = "day15" THEN " #" ELSE "#"), Val(c.chunk_index),
      Lit("] "), Val(c.text)>>

ContextHeader(v) ==
    Lit(IF v = "day15" THEN "CONTEXT:\n" ELSE "CONTEXT (with chunk IDs):\n")

QuestionHeader == Lit("\n\nQUESTION: ")

\* the prompt ask_llm_with_rag (day 15) and ask_llm_with_citations (day 16)
\* send first
ComposePrompt(v, question, chunks) ==
    LET context_texts == [k \in 1..Len(chunks) |-> ContextText(v, chunks[k])]
        context_block == Join(Lit("\n\n"), context_texts)
    IN  <<Lit("instructions"), ContextHeader(v)>> \o context_block
           \o <<QuestionHeader, Val(question)>>
           \o (IF v = "day15" THEN <<>> ELSE <<Lit("closing instructions")>>)

\* the chunks of a retrieve result, as the /ask handlers pass them on
ResultChunks ==
    [doc : {FileA.name, FileBig.name}, chunk_index : 0..1, text : {<<"a">>, <<"b">>},
     score : {One}]

ResultSets ==
    {<<>>} \cup {<<c>> : c \in ResultChunks}
           \cup {<<c, d>> : c \in ResultChunks, d \in ResultChunks}

\* ask_llm_with_rag(question, chunks) / ask_llm_with_citations(question, chunks),
\* to the prompt it sends
ComposeCall ==
    /\ probe = NoCall
    /\ \E question \in Queries, chunks \in ResultSets :
          probe' = [fn |-> "ask_llm", question |-> question, chunks |-> chunks,
                    prompt |-> ComposePrompt(variant, question, chunks)]
    /\ UNCHANGED <<server, demos>>

\* the windows cut side by side, the overlap forgotten
Stride_NoOverlap(chunk_size, overlap) == chunk_size

\* start += chunk_size - overlap
Stride(chunk_size, overlap) == chunk_size - overlap

\* tokens[start:end], for 0 <= start < end
TokenSlice(tokens, start, end) == SubSeq(tokens, start + 1, Min(end, Len(tokens)))

\* chunk_text(text, chunk_size, overlap) of day 14, to its loop: the tokens of
\* the text are numbered by their positions, and the parameters are a window
\* size and a number of shared tokens below it
TokenChunkCall ==
    /\ probe = NoCall
    /\ \E n \in 0..MaxTokens, chunk_size \in 1..MaxChunkSize :
          \E overlap \in 0..(chunk_size - 1) :
             probe' = [fn |-> "token_chunks", pc |-> "loop",
                       tokens |-> [k \in 1..n |-> k - 1],
                       chunk_size |-> chunk_size, overlap |-> overlap,
                       start |-> 0, chunks |-> <<>>]
    /\ UNCHANGED <<server, demos>>

\* one test of  while start < len(tokens)  and the iteration it lets in
TokenChunkLoop ==
    /\ probe.fn = "token_chunks" /\ probe.pc = "loop"
    /\ IF probe.start < Len(probe.tokens)
       THEN LET end == probe.start + probe.chunk_size IN
            probe' = [probe EXCEPT
                         !.chunks = Append(@, TokenSlice(probe.tokens, probe.start, end)),
                         !.start = @ + Stride(probe.chunk_size, probe.overlap)]
       ELSE probe' = [probe EXCEPT !.pc = "done"]
    /\ UNCHANGED <<server, demos>>

FnInit ==
    /\ variant \in {"day15", "day16"}
    /\ corpus = <<>>
    /\ file = Absent
    /\ RAG_INDEX = EmptyCache
    /\ task = EmptyBag
    /\ last = NoResp
    /\ pinned = NoPin
    /\ emptied = FALSE
    /\ probe = NoCall
    /\ NoDemo

FnNext ==
    \/ ChunkCall
    \/ EmbedCall
    \/ ComposeCall
    \/ TokenChunkCall
    \/ TokenChunkLoop

FnSpec == FnInit /\ [][FnNext]_vars

----------------------------------------------------------------------------
(* Day 7: the chat that compresses its dialogue *)

\* how many messages (user and assistant) one summary block holds
SUMMARY_BLOCK_SIZE == 10

\* the "message" field of the request bodies: absent or empty, blank, a text,
\* a text with whitespace around it
Bodies == {<<>>, <<" ">>, <<"a">>, <<" ", "a", "\n">>}

\* what a call of the hosted model comes back with: a reply, or an exception
ModelOutcomes == {[raises |-> FALSE, text |-> "reply"], [raises |-> TRUE]}

\* what the summariser's call of the hosted model comes back with
SummarizerOutcomes == {[raises |-> FALSE, text |-> "summary"], [raises |-> TRUE]}

Message(role, content) == [role |-> role, content |-> content]

SYSTEM_PROMPT == "SYSTEM_PROMPT"

\* the summaries, numbered from 1, under their heading: the content of one
\* system message
CombinedSummaries(sums) ==
    [heading |-> "Conversation summary so far:",
     numbered |-> [i \in 1..Len(sums) |-> <<i, sums[i]>>]]

\* build_compressed_context, on the lists as they are when it is called
build_compressed_context(sums, pending, new_user_message) ==
    <<Message("system", SYSTEM_PROMPT)>>
    \o (IF sums # <<>> THEN <<Message("system", CombinedSummaries(sums))>> ELSE <<>>)
    \o pending
    \o <<Message("user", new_user_message)>>

\* A response of /chat: how the handler ended ("ok", "error" for the empty
\* message, "raised" when a call of the model threw), the stripped message,
\* pending_messages as the request found it, whether a summary was made,
\* and the context sent to the model, if one was sent.
ChatResp(status, user_message, sent, created) ==
    [kind |-> "chat", status |-> status, message |-> user_message,
     before |-> pending_messages, had |-> summaries,
     sent |-> sent # <<>>, context |-> sent, summary_created |-> created]

\* POST /chat.  The handler awaits only the request body; the rest, the two
\* calls of the model included, runs without a suspension point.
Chat ==
    /\ Len(raw_history) + 2 <= MaxHistory
    /\ \E body \in Bodies, model \in ModelOutcomes, summarizer \in SummarizerOutcomes :
         LET user_message == Strip(body)
             user_msg_obj == Message("user", user_message)
             raw1 == Append(raw_history, user_msg_obj)
             pending1 == Append(pending_messages, user_msg_obj)
             context == build_compressed_context(summaries, pending1, user_message)
             assistant_msg_obj == Message("assistant", model.text)
             raw2 == Append(raw1, assistant_msg_obj)
             pending2 == Append(pending1, assistant_msg_obj)
         IN  IF user_message = <<>>
             THEN /\ last' = ChatResp("error", user_message, <<>>, FALSE)
                  /\ UNCHANGED <<raw_history, pending_messages, summaries>>
             ELSE IF model.raises
             THEN /\ raw_history' = raw1
                  /\ pending_messages' = pending1
                  /\ UNCHANGED summaries
                  /\ last' = ChatResp("raised", user_message, context, FALSE)
             ELSE IF Len(pending2) < SUMMARY_BLOCK_SIZE
             THEN /\ raw_history' = raw2
                  /\ pending_messages' = pending2
                  /\ UNCHANGED summaries
                  /\ last' = ChatResp("ok", user_message, context, FALSE)
             ELSE IF summarizer.raises
             THEN /\ raw_history' = raw2
                  /\ pending_messages' = pending2
                  /\ UNCHANGED summaries
                  /\ last' = ChatResp("raised", user_message, context, FALSE)
             ELSE /\ raw_history' = raw2
                  /\ summaries' = Append(summaries, summarizer.text)
                  /\ pending_messages' = <<>>
                  /\ last' = ChatResp("ok", user_message, context, TRUE)
    /\ UNCHANGED <<variant, corpus, file, RAG_INDEX, task, pinned, emptied, probe, mcp, memory>>

\* POST /reset
Reset ==
    /\ raw_history' = <<>>
    /\ pending_messages' = <<>>
    /\ summaries' = <<>>
    /\ last' = [kind |-> "reset", status |-> "ok"]
    /\ UNCHANGED <<variant, corpus, file, RAG_INDEX, task, pinned, emptied, probe, mcp, memory>>

ChatInit ==
    /\ variant = "day15"
    /\ corpus = <<>>
    /\ file = Absent
    /\ RAG_INDEX = EmptyCache
    /\ task = EmptyBag
    /\ last = NoResp
    /\ pinned = NoPin
    /\ emptied = FALSE
    /\ probe = NoCall
    /\ NoDemo

ChatNext ==
    \/ Chat
    \/ Reset

ChatSpec == ChatInit /\ [][ChatNext]_vars

----------------------------------------------------------------------------
(* Days 8 and 11: the MCP server on stdin and stdout *)

\* MCPServer.__init__
MCPServer(name) == [name |-> name, initialized |-> FALSE, alive |-> TRUE]

ServerNames == {"day8-mcp-server", "day11-mcp-server"}

\* self.tools, by name
Tools(name) ==
    {"list_public_channels", "read_slack_latest", "echo", "calculate"}
    \cup (IF name = "day11-mcp-server"
          THEN {"memory_store", "memory_read", "memory_list"}
          ELSE {})

\* a value that is not a JSON object, where the code expects one
NotObject == [object |-> FALSE]

\* the "arguments" of a tools/call: a key (empty or not), a value (null or
\* not), a limit (a number or not), or something that is no object
Arguments ==
    {NotObject}
    \cup [object : {TRUE}, key : {"", "k"}, value : {"null", "v", "w"}, limit : {"10", "x"}]

\* the "params" of a request
Params ==
    {NotObject}
    \cup [object : {TRUE},
          name : Tools("day11-mcp-server") \cup {"nope"},
          arguments : Arguments]

Methods == {"initialize", "tools/list", "tools/call", "ping"}

\* the lines stdin gives: nothing, text that is no JSON, JSON that is no
\* object, a request
Lines ==
    {[json |-> "none"], [json |-> "invalid"], [json |-> "scalar"]}
    \cup [json : {"object"}, method : Methods, id : 1..MaxId, params : Params]

\* what the world outside does to a tool: the Slack call or the evaluation
\* gives a result, gives an error the tool reports, or throws (for calculate:
\* gives a value json.dumps cannot write)
Outcomes == {"ok", "error", "raises"}

\* MCPServer.call_tool: whether it throws, the tool it ran ("none" when it
\* ran none), the result it wraps, and the rows of the memory table after it
ToolResult(raises, executed, result, rows) ==
    [raises |-> raises, executed |-> executed, result |-> result, memory |-> rows]

call_tool(self, name, args, outcome) ==
    LET known == name \in Tools(self.name)
        thrown == ToolResult(TRUE, "none", "exception", memory)
    IN  IF ~known
        THEN ToolResult(FALSE, "none", "Unknown tool", memory)
        ELSE IF name = "list_public_channels"
        THEN ToolResult(outcome = "raises", name, outcome, memory)
        ELSE IF ~args.object
        THEN IF name = "memory_list"
             THEN ToolResult(FALSE, name, {r[1] : r \in memory}, memory)
             ELSE thrown
        ELSE IF name = "read_slack_latest"
        THEN IF args.limit = "x"
             THEN thrown
             ELSE ToolResult(outcome = "raises", name, outcome, memory)
        ELSE IF name = "echo"
        THEN ToolResult(FALSE, name, "echo", memory)
        ELSE IF name = "calculate"
        THEN ToolResult(outcome = "raises", name, outcome, memory)
        ELSE IF name = "memory_store"
        THEN IF args.key = "" \/ args.value = "null"
             THEN ToolResult(FALSE, "none", "key and value are required", memory)
             ELSE ToolResult(FALSE, name, "stored",
                             {r \in memory : r[1] # args.key}
                             \cup {<<args.key, args.value>>})
        ELSE IF name = "memory_read"
        THEN IF args.key = ""
             THEN ToolResult(FALSE, "none", "key is required", memory)
             ELSE ToolResult(FALSE, name, {r[2] : r \in {q \in memory : q[1] = args.key}}, memory)
        ELSE ToolResult(FALSE, name, {r[1] : r \in memory}, memory)

\* the test in front of tools/list and tools/call
NotInitialized_Never(self) == FALSE
NotInitialized(self) == ~self.initialized

\* A response line: the method and id it answers, whether the server was
\* initialized when the request came, the error code (0 for a result),
\* whether call_tool was entered and the tool it ran.
McpResp(request, code, result, called, executed) ==
    [kind |-> "mcp", method |-> request.method, id |-> request.id,
     object |-> request.params.object, was |-> mcp.initialized,
     code |-> code, result |-> result, called |-> called, executed |-> executed]

\* One turn of the loop of main: read a line, answer it.
MainLoop ==
    /\ mcp.alive
    /\ \E request \in Lines, outcome \in Outcomes :
         IF request.json \in {"none", "invalid"}
         THEN /\ last' = NoResp
              /\ UNCHANGED <<mcp, memory>>
         ELSE IF request.json = "scalar"
         THEN /\ mcp' = [mcp EXCEPT !.alive = FALSE]
              /\ last' = [kind |-> "exit"]
              /\ UNCHANGED memory
         ELSE IF request.method = "initialize"
         THEN /\ mcp' = [mcp EXCEPT !.initialized = TRUE]
              /\ last' = McpResp(request, 0, mcp.name, FALSE, "none")
              /\ UNCHANGED memory
         ELSE IF request.method = "tools/list"
         THEN /\ last' = IF NotInitialized(mcp)
                         THEN McpResp(request, -32002, "Server not initialized", FALSE, "none")
                         ELSE McpResp(request, 0, Tools(mcp.name), FALSE, "none")
              /\ UNCHANGED <<mcp, memory>>
         ELSE IF request.method = "tools/call"
         THEN IF NotInitialized(mcp)
              THEN /\ last' = McpResp(request, -32002, "Server not initialized", FALSE, "none")
                   /\ UNCHANGED <<mcp, memory>>
              ELSE IF ~request.params.object
              THEN /\ last' = McpResp(request, -32000, "exception", FALSE, "none")
                   /\ UNCHANGED <<mcp, memory>>
              ELSE LET r == call_tool(mcp, request.params.name,
                                      request.params.arguments, outcome)
                   IN  /\ last' = McpResp(request, IF r.raises THEN -32000 ELSE 0,
                                          r.result, TRUE, r.executed)
                       /\ memory' = r.memory
                       /\ UNCHANGED mcp
         ELSE /\ last' = McpResp(request, -32601, "Method not found", FALSE, "none")
              /\ UNCHANGED <<mcp, memory>>
    /\ UNCHANGED <<variant, corpus, file, RAG_INDEX, task, pinned, emptied, probe,
                   raw_history, pending_messages, summaries>>

McpInit ==
    /\ variant = "day15"
    /\ corpus = <<>>
    /\ file = Absent
    /\ RAG_INDEX = EmptyCache
    /\ task = EmptyBag
    /\ last = NoResp
    /\ pinned = NoPin
    /\ emptied = FALSE
    /\ probe = NoCall
    /\ raw_history = <<>>
    /\ pending_messages = <<>>
    /\ summaries = <<>>
    /\ mcp \in {MCPServer(name) : name \in ServerNames}
    /\ memory = {}

McpNext == MainLoop

McpSpec == McpInit /\ [][McpNext]_vars

----------------------------------------------------------------------------
(* Properties *)

\* the step just taken returned a retrieve result set
Retrieved == last.kind = "retrieve" /\ last.outcome = "ok"

\* the step just taken returned from /reindex with success
Reindexed == last.kind = "reindex" /\ last.outcome = "ok"

\* the chunks a corpus holds: per document file, in walk order, its chunks
RECURSIVE CorpusChunks(_)
CorpusChunks(files) ==
    IF files = <<>> THEN <<>>
    ELSE LET f == files[1]
             cs == IF IsDoc(f.name) THEN chunk_text(f.text, DefaultMaxChars) ELSE <<>>
         IN  [k \in 1..Len(cs) |-> [doc |-> f.name, text |-> cs[k]]] \o CorpusChunks(Tail(files))

DocsAndTexts(chunks) ==
    [k \in 1..Len(chunks) |-> [doc |-> chunks[k].doc, text |-> chunks[k].text]]

\* the result set the same call returns without a threshold
Unfiltered ==
    RetrieveResult(variant, last.index, embed_text(last.question), last.top_k, NoThreshold).chunks

\* C1: a retrieve without a threshold on an index of N chunks returns at most
\* top_k results, exactly top_k when N >= top_k, and all N when top_k > N.
C1_TopKResults ==
    (Retrieved /\ ~last.threshold.some) =>
        LET n == Len(last.result.chunks)
            N == Len(last.index.chunks)
            K == last.top_k
        IN  /\ n <= K
            /\ N >= K => n = K
            /\ K > N => n = N

\* C2: the threshold is applied after the cut to top_k: with a threshold the
\* call returns exactly the results of the same call without one whose score
\* is at least the threshold, in the same order; none scores below it.
C2_ThresholdAfterTopK ==
    (Retrieved /\ last.threshold.some) =>
        /\ last.result.chunks =
              SelectSeq(Unfiltered, LAMBDA c : FracGeq(c.score, last.threshold.v))
        /\ \A k \in 1..Len(last.result.chunks) :
              FracGeq(last.result.chunks[k].score, last.threshold.v)

\* the threshold removed some of the top_k results and kept others
C2_Witness ==
    /\ Retrieved /\ last.threshold.some
    /\ last.result.chunks # <<>>
    /\ Len(last.result.chunks) < Len(Unfiltered)

\* the position in the index of the chunk a result was made from
PosInIndex(c) ==
    CHOOSE k \in 1..Len(last.index.chunks) :
        /\ last.index.chunks[k].doc = c.doc
        /\ last.index.chunks[k].chunk_index = c.chunk_index

\* C3: the results are ordered by score descending, and results of equal
\* score keep the order their chunks have in the index.
C3_SortedStable ==
    Retrieved =>
        \A i, j \in 1..Len(last.result.chunks) :
            i < j =>
                LET a == last.result.chunks[i]
                    b == last.result.chunks[j]
                IN  /\ FracGeq(a.score, b.score)
                    /\ a.score = b.score => PosInIndex(a) < PosInIndex(b)

\* two results tie, and their chunks are not neighbours in the index
C3_Witness ==
    /\ Retrieved
    /\ \E i, j \in 1..Len(last.result.chunks) :
          /\ i < j
          /\ last.result.chunks[i].score = last.result.chunks[j].score
          /\ PosInIndex(last.result.chunks[j]) > PosInIndex(last.result.chunks[i]) + 1

\* C4: when neither the cache nor the artifact holds a chunk, retrieve returns
\* an empty result set as a value and never calls the embedding gateway.
C4_EmptyIndexNoEmbedding ==
    (last.kind = "retrieve" /\ last.nothing) =>
        /\ last.outcome = "ok"
        /\ last.result.chunks = <<>>
        /\ last.calls = 0

\* a retrieve returned while the artifact exists and holds an index without chunks
C4_Witness ==
    /\ last.kind = "retrieve" /\ last.nothing
    /\ file.exists

\* C5: with no reindex in between, a retrieve returns what the first retrieve
\* since the last reindex returns for the same question, top_k and threshold.
C5_Idempotent ==
    (Retrieved /\ ~last.crossed /\ pinned.set) =>
        last.result = RetrieveResult(variant, pinned.index, embed_text(last.question),
                                     last.top_k, last.threshold)

\* a retrieve returned results while another call of the same period is in
\* flight, and the artifact was removed in between
C5_Witness ==
    /\ Retrieved /\ ~last.crossed /\ pinned.set
    /\ last.result.chunks # <<>>
    /\ ~file.exists
    /\ \E r \in Suspended("retrieve") : ~r.crossed

\* C6: after a reindex returns with success, the artifact and the cache hold
\* exactly the chunks of the corpus that reindex walked, nothing of an earlier
\* index, and a load returns that content.
C6_OnlyLatestReindex ==
    Reindexed =>
        /\ file.exists /\ file.data = last.index
        /\ RAG_INDEX = last.index
        /\ DocsAndTexts(RAG_INDEX.chunks) = CorpusChunks(corpus)
        /\ load_index(variant, file, RAG_INDEX) = last.index

\* a reindex replaced an index of other chunks, which a retrieve called before
\* it still scores against
C6_Witness ==
    /\ Reindexed
    /\ last.index.chunks # <<>>
    /\ \E r \in Suspended("retrieve") :
          /\ r.crossed
          /\ r.index.chunks # <<>>
          /\ DocsAndTexts(r.index.chunks) # DocsAndTexts(last.index.chunks)

\* {"chunks": [], "doc_count": 0}
EmptyIndex == [chunks |-> <<>>, doc_count |-> 0]

\* C7: a reindex of an empty corpus directory leaves an index with chunks = []
\* and doc_count = 0 in the artifact and in the cache, whatever they held, and
\* every retrieve called after it returns an empty chunk list.
C7_EmptyCorpus ==
    /\ (Reindexed /\ emptied) =>
          /\ last.index = EmptyIndex
          /\ file.exists /\ file.data = EmptyIndex
          /\ RAG_INDEX = EmptyIndex
    /\ (last.kind = "retrieve" /\ last.since_emptied) =>
          /\ last.outcome = "ok"
          /\ last.result.chunks = <<>>

\* a retrieve called after the reindex of an empty directory returned, while a
\* retrieve called before it still holds the chunks the index had
C7_Witness ==
    /\ last.kind = "retrieve" /\ last.since_emptied
    /\ \E r \in Suspended("retrieve") : r.index.chunks # <<>>

\* C8: when the artifact is absent, load returns an empty index, chunks = []
\* and doc_count = 0, whatever the cache held.
C8_LoadAbsentIsEmptyIndex ==
    (last.kind = "retrieve" /\ last.load = "absent") =>
        /\ last.index.chunks = <<>>
        /\ "doc_count" \in DOMAIN last.index
        /\ last.index.doc_count = 0

\* load_index returned the cache of an earlier reindex, doc_count included
C8_StaleCount ==
    /\ last.kind = "retrieve" /\ last.load = "absent"
    /\ "doc_count" \in DOMAIN last.index
    /\ last.index.doc_count > 0

\* index has a vector for every chunk and holds every chunk of some corpus
Complete(index) ==
    /\ \A k \in 1..Len(index.chunks) :
          index.chunks[k].embedding = embed_text(index.chunks[k].text)
    /\ \E c \in Corpora : DocsAndTexts(index.chunks) = CorpusChunks(c)

\* the step just taken is a /reindex that an embedding failure aborted
EmbedAborted == last.kind = "reindex" /\ last.outcome = "error" /\ last.cause = "embed"

\* C9: a reindex whose embedding call fails returns an error and changes
\* neither the artifact nor the cache; no index holding part of a corpus, or a
\* chunk without its vector, is ever in the artifact or in the cache.
C9_EmbedFailureAborts ==
    /\ [](Complete(RAG_INDEX) /\ (Parses(file) => Complete(file.data)))
    /\ [][EmbedAborted' => (file' = file /\ RAG_INDEX' = RAG_INDEX)]_vars

\* a reindex failed after it had embedded chunks, on top of an index that
\* holds other chunks than the ones it had embedded
C9_Witness ==
    /\ EmbedAborted
    /\ last.embedded >= 1
    /\ Parses(file) /\ Len(file.data.chunks) # last.embedded
    /\ RAG_INDEX = file.data

\* the corpus holds a document file that cannot be read
HasUnreadable(files) ==
    \E k \in 1..Len(files) : IsDoc(files[k].name) /\ ~files[k].readable

Readable(files) == SelectSeq(files, LAMBDA f : f.readable)

\* C10: a reindex of a corpus with an unreadable file, no embedding call
\* failing, skips the file and returns with success, the artifact holding the
\* chunks of every readable document.
C10_UnreadableSkipped ==
    (last.kind = "reindex" /\ HasUnreadable(corpus) /\ ~EmbedAborted) =>
        /\ last.outcome = "ok"
        /\ file.exists
        /\ DocsAndTexts(file.data.chunks) = CorpusChunks(Readable(corpus))

\* the chunks of the index of a list of files, n chunks made before them: per
\* document file in walk order, its chunks with their ids, positions and vectors
RECURSIVE IndexChunks(_, _)
IndexChunks(files, n) ==
    IF files = <<>> THEN <<>>
    ELSE LET f == files[1]
             cs == IF IsDoc(f.name) THEN chunk_text(f.text, DefaultMaxChars) ELSE <<>>
         IN  [k \in 1..Len(cs) |->
                 [id |-> ChunkId(n + k - 1), doc |-> f.name, chunk_index |-> k - 1,
                  text |-> cs[k], embedding |-> embed_text(cs[k])]]
             \o IndexChunks(Tail(files), n + Len(cs))

\* each directory listing with all of what one reindex of it builds
Generations ==
    { <<c, [chunks |-> IndexChunks(c, 0),
            doc_count |-> Len(SelectSeq(c, LAMBDA f : IsDoc(f.name)))]>> : c \in Corpora }

\* index is all of what one reindex of corpus c builds
WholeOf(index, c) == <<c, index>> \in Generations

\* index is one generation: the index of a fresh process, or all of what one
\* reindex builds
OneGeneration(index) == index = EmptyCache \/ \E c \in Corpora : WholeOf(index, c)

\* C11: a retrieve interleaved with a reindex scores against one complete
\* generation of the index, the one resident when it was called: its results
\* are the results on that index, which is no partly built one, and a reindex
\* that is suspended leaves the resident index as it was.
C11_OneGenerationPerRetrieve ==
    /\ OneGeneration(RAG_INDEX)
    /\ \A r \in Suspended("retrieve") : OneGeneration(r.index)
    /\ Retrieved =>
          /\ OneGeneration(last.index)
          /\ last.result = IF last.calls = 0 THEN EmptyResult(variant)
                           ELSE RetrieveResult(variant, last.index,
                                               embed_text(last.question),
                                               last.top_k, last.threshold)

\* a retrieve returned the results of the generation it was called on after
\* a reindex had replaced it, while the next reindex had part of its chunks
C11_Witness ==
    /\ Retrieved /\ last.crossed
    /\ last.result.chunks # <<>>
    /\ last.index # RAG_INDEX
    /\ \E r \in Suspended("reindex") : r.chunks # <<>>

\* C12: with reindex requests overlapping, the artifact is at every moment
\* all of what one reindex builds, never chunks of two of them, and when the
\* last of the overlapping requests has returned the cache equals the artifact.
C12_OverlappingReindexes ==
    /\ Parses(file) => \E c \in Corpora : WholeOf(file.data, c)
    /\ (Reindexed /\ last.overlap /\ Suspended("reindex") = {}) =>
          /\ file.exists
          /\ RAG_INDEX = file.data

\* the last of two overlapping reindexes of a corpus with chunks returned
C12_Witness ==
    /\ Reindexed /\ last.overlap /\ Suspended("reindex") = {}
    /\ Len(last.index.chunks) > 1

\* chunk_text was called on its own
Chunked == probe.fn = "chunk_text"

\* C13: every chunk of chunk_text(text, max_size) has at most max_size
\* characters, except a chunk that is one single input line longer than
\* max_size, which is a chunk of its own and is not split.
C13_ChunkWithinBudget ==
    Chunked =>
        \A k \in 1..Len(probe.chunks) :
            LET c == probe.chunks[k] IN
            Len(c) > probe.max_chars =>
                /\ \A i \in 1..Len(c) : c[i] \notin LineEnds
                /\ \E j \in 1..Len(SplitLines(probe.text)) :
                      /\ Len(SplitLines(probe.text)[j]) > probe.max_chars
                      /\ c = Strip(SplitLines(probe.text)[j])

\* a text of several lines gave a chunk that is a line over the budget, and
\* other chunks beside it
C13_Witness ==
    /\ Chunked
    /\ Len(probe.chunks) >= 2
    /\ \E k \in 1..Len(probe.chunks) : Len(probe.chunks[k]) > probe.max_chars

\* the words of a text: its maximal runs of characters that are not whitespace
RECURSIVE WordsFrom(_, _, _, _)
WordsFrom(s, i, cur, acc) ==
    IF i > Len(s) THEN (IF cur # <<>> THEN Append(acc, cur) ELSE acc)
    ELSE IF s[i] \in Whitespace
         THEN WordsFrom(s, i + 1, <<>>, IF cur # <<>> THEN Append(acc, cur) ELSE acc)
    ELSE WordsFrom(s, i + 1, Append(cur, s[i]), acc)

Words(s) == WordsFrom(s, 1, <<>>, <<>>)

\* the words of the chunks, chunk after chunk
RECURSIVE WordsOfAll(_)
WordsOfAll(chunks) ==
    IF chunks = <<>> THEN <<>> ELSE Words(chunks[1]) \o WordsOfAll(Tail(chunks))

RECURSIVE UnixFrom(_, _)
UnixFrom(s, i) ==
    IF i > Len(s) THEN <<>>
    ELSE IF s[i] = "\r" /\ i < Len(s) /\ s[i + 1] = "\n" THEN <<"\n">> \o UnixFrom(s, i + 2)
    ELSE IF s[i] = "\r" THEN <<"\n">> \o UnixFrom(s, i + 1)
    ELSE <<s[i]>> \o UnixFrom(s, i + 1)

UnixLineEnds(s) == UnixFrom(s, 1)

Blank(s) == Strip(s) = <<>>

NoEmptyChunk == \A k \in 1..Len(probe.chunks) : probe.chunks[k] # <<>>

\* C15 as stated: chunk_text of an empty or whitespace-only text is the empty
\* sequence; of any other text shorter than max_chars it is exactly one chunk,
\* equal to the trimmed text; and no chunk is ever empty.
C15_ShortInputOneChunk ==
    Chunked =>
        /\ Blank(probe.text) => probe.chunks = <<>>
        /\ (~Blank(probe.text) /\ Len(probe.text) < probe.max_chars)
              => probe.chunks = <<Strip(probe.text)>>
        /\ NoEmptyChunk

\* C15 amended: the one chunk of a short text is the trimmed text with every
\* line end written as "\n"; the rest as stated.
C15_ShortInputOneChunkUnix ==
    Chunked =>
        /\ Blank(probe.text) => probe.chunks = <<>>
        /\ (~Blank(probe.text) /\ Len(probe.text) < probe.max_chars)
              => probe.chunks = <<Strip(UnixLineEnds(probe.text))>>
        /\ NoEmptyChunk

\* a short text with a "\r" between two words gave one chunk that is not the
\* trimmed text
C15_Witness ==
    /\ Chunked
    /\ Len(probe.text) < probe.max_chars
    /\ Len(probe.chunks) = 1
    /\ probe.chunks[1] # Strip(probe.text)
    /\ Len(Words(probe.text)) = 2

Embedded == probe.fn = "embed_text"

\* the square of the Euclidean norm of a vector of fractions
NormSq(v) == FracSum([k \in 1..Len(v) |-> FracMul(v[k], v[k])])

\* a . b for integer vectors of one length
RECURSIVE Dot(_, _)
Dot(a, b) == IF a = <<>> THEN 0 ELSE a[1] * b[1] + Dot(Tail(a), Tail(b))

\* the cosine of the angle between two non-zero raw vectors
Cosine(a, b) == Frac(Dot(a, b), Sqrt(SumSq(a)) * Sqrt(SumSq(b)))

Propagated ==
    /\ last.kind = "retrieve"
    /\ last.outcome = "error"
    /\ "result" \notin DOMAIN last

\* C17: when embed_text raises for the query of a retrieve, which is then on
\* an index with chunks, the caller gets the error and no result set, and the
\* step leaves the cache and the artifact as they were.
C17_QueryEmbedFailurePropagates ==
    [][\A r \in Suspended("retrieve") :
          RetrieveEmbedFailed(r) =>
              /\ r.index.chunks # <<>>
              /\ Propagated'
              /\ RAG_INDEX' = RAG_INDEX
              /\ file' = file]_vars

\* a retrieve on the resident index of several chunks ended in the error
C17_Witness ==
    /\ Propagated
    /\ last.cause = "embed"
    /\ Len(last.index.chunks) > 1
    /\ RAG_INDEX = last.index

Composed == probe.fn = "ask_llm"

\* where a part stands in a prompt
PosOf(prompt, part) == CHOOSE i \in 1..Len(prompt) : prompt[i] = part

\* the parts of a prompt between its context header and its question header
ContextBlockOf(v, prompt) ==
    SubSeq(prompt, PosOf(prompt, ContextHeader(v)) + 1, PosOf(prompt, QuestionHeader) - 1)

\* C18: when the results given to the prompt composer are empty, the context
\* block of the prompt it composes is not empty: it holds a marker that no
\* context was found.
C18_EmptyResultsMarked ==
    (Composed /\ probe.chunks = <<>>) => ContextBlockOf(variant, probe.prompt) # <<>>

\* a retrieve on an index with chunks returned none: the threshold removed
\* every one of the top_k
NoneMatched ==
    /\ Retrieved
    /\ last.index.chunks # <<>>
    /\ last.top_k > 0
    /\ last.threshold.some
    /\ last.result.chunks = <<>>

\* C19: a retrieve result without chunks tells 'nothing indexed' from 'chunks
\* indexed but none matched': the result of a retrieve whose chunks were all
\* removed by the threshold is not the result of a retrieve on an empty index.
C19_EmptyResultsDistinguished ==
    NoneMatched => last.result # EmptyResult(variant)

\* C20: when the artifact exists and does not parse, a retrieve or a health
\* request that calls load_index, the cache holding no chunk, ends in an error
\* and in no result, no chunk count and no suspended call, and leaves the cache
\* and the artifact as they were.
C20_UnparseableArtifactSurfaces ==
    [][(LoadRaises(file, RAG_INDEX) /\ (RetrieveStart \/ Health)) =>
          /\ last'.kind \in {"retrieve", "health"}
          /\ last'.outcome = "error" /\ last'.cause = "parse"
          /\ "result" \notin DOMAIN last' /\ "chunks" \notin DOMAIN last'
          /\ task' = task
          /\ RAG_INDEX' = RAG_INDEX
          /\ file' = file]_vars

\* a health request failed on the unparseable artifact while the cache holds
\* the empty index an earlier reindex left
C20_Witness ==
    /\ last.kind = "health" /\ last.outcome = "error" /\ last.cause = "parse"
    /\ file = Garbled
    /\ RAG_INDEX = EmptyIndex

\* the documents that have a chunk in an index
DocsOf(index) == { index.chunks[k].doc : k \in 1..Len(index.chunks) }

\* C21: in the index a reindex builds, doc_count is the number of distinct
\* documents among the index's chunks, also when a document file is empty and
\* gives no chunk.
C21_DocCountIsContributingDocs ==
    Reindexed => last.index.doc_count = Cardinality(DocsOf(last.index))

\* a step of a retrieve call: one that ends in the response of a retrieve, or
\* one that leaves a retrieve suspended at its embedding call
RetrieveStep ==
    /\ Idle
    /\ \/ last'.kind = "retrieve"
       \/ \E r \in Suspended("retrieve")' : task' = With(task, r)

\* C22: no step of a retrieve changes the artifact, and none changes the
\* chunks the cache holds, their order, texts and embeddings, but to put the
\* chunks of the artifact into a cache that holds none.
C22_RetrieveReadsOnly ==
    [][RetrieveStep =>
          /\ file' = file
          /\ \/ RAG_INDEX'.chunks = RAG_INDEX.chunks
             \/ /\ RAG_INDEX.chunks = <<>>
                /\ Parses(file)
                /\ RAG_INDEX'.chunks = file.data.chunks]_vars

\* a retrieve with a threshold returned chunks of the index it had put into
\* the empty cache from the artifact, and the cache still holds that index
C22_Witness ==
    /\ Retrieved
    /\ last.load = "present"
    /\ last.threshold.some
    /\ last.result.chunks # <<>>
    /\ Len(last.index.chunks) > 1
    /\ RAG_INDEX = last.index

\* C23: in the index a reindex builds, the i-th chunk in insertion order,
\* counted from 0 across all documents, has the id chunk-i; hence the ids are
\* pairwise distinct.
C23_ChunkIdsNumbered ==
    Reindexed =>
        LET chunks == last.index.chunks IN
        /\ \A k \in 1..Len(chunks) : chunks[k].id = ChunkId(k - 1)
        /\ \A j, k \in 1..Len(chunks) : j # k => chunks[j].id # chunks[k].id

\* a reindex that overlapped another built an index of three chunks of two
\* documents
C23_Witness ==
    /\ Reindexed /\ last.overlap
    /\ Len(last.index.chunks) >= 3
    /\ Cardinality(DocsOf(last.index)) >= 2

\* C24: in the index a reindex builds, the chunks of one document stand next
\* to each other and their chunk_index values are 0, 1, ..., m-1 in insertion
\* order, m being the number of chunks of the document.
C24_ChunkIndexPerDocument ==
    Reindexed =>
        LET chunks == last.index.chunks IN
        /\ \A k \in 1..Len(chunks) :
              chunks[k].chunk_index
                 = Cardinality({j \in 1..(k - 1) : chunks[j].doc = chunks[k].doc})
        /\ \A j, k \in 1..Len(chunks) :
              (j < k /\ chunks[j].doc = chunks[k].doc) =>
                  \A m \in j..k : chunks[m].doc = chunks[j].doc

\* a document with two chunks stands behind the chunk of another document
C24_Witness ==
    /\ Reindexed
    /\ \E k \in 2..Len(last.index.chunks) :
          /\ last.index.chunks[k].chunk_index = 1
          /\ last.index.chunks[1].doc # last.index.chunks[k].doc

\* lines a .. b, each followed by a newline
RECURSIVE Buffer(_, _, _)
Buffer(lines, a, b) ==
    IF a > b THEN <<>> ELSE lines[a] \o <<"\n">> \o Buffer(lines, a + 1, b)

\* the last line of the run that starts at line a, the runs ending at the
\* lines of cuts and at the last line
RunEnd(lines, a, cuts) ==
    CHOOSE b \in a..Len(lines) :
        (b \in cuts \/ b = Len(lines)) /\ \A i \in a..(b - 1) : i \notin cuts

\* the runs of lines that cuts makes, as pairs of first and last line
Runs(lines, cuts) ==
    { <<a, RunEnd(lines, a, cuts)>> :
        a \in {i \in 1..Len(lines) : i = 1 \/ (i - 1) \in cuts} }

\* the runs from line a on, trimmed, the blank ones left out
RECURSIVE RunChunks(_, _, _)
RunChunks(lines, a, cuts) ==
    IF a > Len(lines) THEN <<>>
    ELSE LET b == RunEnd(lines, a, cuts)
             c == Strip(Buffer(lines, a, b))
         IN  (IF c # <<>> THEN <<c>> ELSE <<>>) \o RunChunks(lines, b + 1, cuts)

\* every run but a single line fits max_chars, and none can take the line
\* after it and that line's newline
GreedyRuns(lines, cuts, max_chars) ==
    \A run \in Runs(lines, cuts) :
        /\ run[2] > run[1] => Len(Buffer(lines, run[1], run[2])) <= max_chars
        /\ run[2] < Len(lines) =>
              Len(Buffer(lines, run[1], run[2])) + Len(lines[run[2] + 1]) + 1 > max_chars

\* the chunks are the trimmed greedy runs of whole consecutive lines
GreedyOnLines ==
    LET lines == SplitLines(probe.text) IN
    \E cuts \in SUBSET (1..(Len(lines) - 1)) :
        /\ GreedyRuns(lines, cuts, probe.max_chars)
        /\ probe.chunks = RunChunks(lines, 1, cuts)

\* no line of the text is blank or starts or ends with whitespace
CleanLines(text) ==
    LET lines == SplitLines(text) IN
    \A k \in 1..Len(lines) : lines[k] # <<>> /\ Strip(lines[k]) = lines[k]

\* C25 as stated: the chunks are the greedy runs of whole consecutive lines,
\* flushed before a line exactly when the buffer with that line would exceed
\* max_chars, and two consecutive chunks joined by a newline are longer than
\* max_chars.
C25_GreedyOnLineBoundaries ==
    Chunked =>
        /\ GreedyOnLines
        /\ \A k \in 1..(Len(probe.chunks) - 1) :
              Len(probe.chunks[k]) + 1 + Len(probe.chunks[k + 1]) > probe.max_chars

\* C25 amended: the chunks are the greedy runs of whole consecutive lines,
\* flushed before a line exactly when the buffer with that line and its
\* newline would exceed max_chars, and two consecutive chunks joined by a
\* newline are not shorter than max_chars when no line of the text is blank or
\* has whitespace at its ends.
C25_GreedyOnLineBoundariesAtLeast ==
    Chunked =>
        /\ GreedyOnLines
        /\ CleanLines(probe.text) =>
              \A k \in 1..(Len(probe.chunks) - 1) :
                  Len(probe.chunks[k]) + 1 + Len(probe.chunks[k + 1]) >= probe.max_chars

\* two chunks of a text of clean lines that, joined by a newline, are exactly
\* max_chars long
C25_Witness ==
    /\ Chunked
    /\ CleanLines(probe.text)
    /\ Len(probe.chunks) = 2
    /\ Len(probe.chunks[1]) + 1 + Len(probe.chunks[2]) = probe.max_chars

\* the token chunker has returned
TokenChunked == probe.fn = "token_chunks" /\ probe.pc = "done"

\* the token positions of a window
Positions(window) == { window[j] : j \in 1..Len(window) }

\* what the windows of the token chunker are when it has returned
TokenWindows ==
    TokenChunked =>
        LET chunks == probe.chunks
            s == probe.chunk_size - probe.overlap
        IN  /\ \A k \in 1..Len(chunks) :
                  /\ Len(chunks[k]) \in 1..probe.chunk_size
                  /\ \A j \in 1..Len(chunks[k]) : chunks[k][j] = (k - 1) * s + j - 1
            /\ \A p \in 0..(Len(probe.tokens) - 1) :
                  \E k \in 1..Len(chunks) : p \in Positions(chunks[k])
            /\ \A k \in 1..(Len(chunks) - 1) :
                  LET shared == Cardinality(Positions(chunks[k]) \cap Positions(chunks[k + 1]))
                  IN  IF Len(chunks[k]) = probe.chunk_size
                      THEN shared = probe.overlap
                      ELSE shared <= probe.overlap

\* C26: for a window size chunk_size >= 1 and 0 <= overlap < chunk_size, the
\* token chunker returns windows of at most chunk_size tokens that start at
\* the offsets 0, s, 2s, ... with s = chunk_size - overlap; every token
\* position lies in a window; two consecutive windows share exactly overlap
\* tokens unless the first is cut by the end of the input; and every iteration
\* of the loop moves start forward, so the loop ends.
C26_TokenWindows ==
    /\ []TokenWindows
    /\ [][(probe.fn = "token_chunks" /\ probe'.fn = "token_chunks" /\ probe'.pc = "loop")
             => probe'.start > probe.start]_vars

\* the chunker returned three windows that overlap, the last cut by the end
\* of the input
C26_Witness ==
    /\ TokenChunked
    /\ probe.overlap > 0
    /\ Len(probe.chunks) >= 3
    /\ Len(probe.chunks[Len(probe.chunks)]) < probe.chunk_size

\* C27: for a raw vector of norm zero embed_text divides by 1 and returns the
\* vector of zeros, whose cosine_sim with the vector of any text is 0.
C27_ZeroNormIsZeroVector ==
    (Embedded /\ SumSq(probe.raw) = 0) =>
        /\ probe.vector = [k \in 1..Len(probe.raw) |-> Zero]
        /\ cosine_sim(probe.vector, probe.other_vector) = Zero

\* the raw vector of zeros met the vector of a text that is no unit vector
\* before it is normalised
C27_Witness ==
    /\ Embedded
    /\ SumSq(probe.raw) = 0
    /\ SumSq(probe.other) > 1

\* a /chat request has returned a response (its handler did not throw)
ChatReturned == last.kind = "chat" /\ last.status # "raised"

\* C28: whenever a /chat request returns, fewer than SUMMARY_BLOCK_SIZE
\* messages are pending and the raw history is exactly the summarised blocks
\* of SUMMARY_BLOCK_SIZE messages plus the pending ones, whatever /chat and
\* /reset requests came before, those whose model call failed included.
C28_BlocksOfTen ==
    ChatReturned =>
        /\ Len(pending_messages) < SUMMARY_BLOCK_SIZE
        /\ Len(raw_history) = SUMMARY_BLOCK_SIZE * Len(summaries) + Len(pending_messages)

\* a /chat request has sent a context to the model
ContextSent == last.kind = "chat" /\ last.sent

\* C30: the context a /chat request sends to the model is the system prompt,
\* the combined summaries if there are any, the messages that were pending
\* when the request came, and the new user message, which is in it once.
C30_NewMessageOnce ==
    ContextSent =>
        last.context =
            <<Message("system", SYSTEM_PROMPT)>>
            \o (IF last.had # <<>>
                THEN <<Message("system", CombinedSummaries(last.had))>>
                ELSE <<>>)
            \o last.before
            \o <<Message("user", last.message)>>

\* the step just taken answered a tools/list or a tools/call
ToolRequestAnswered == last.kind = "mcp" /\ last.method \in {"tools/list", "tools/call"}

\* the request was taken up: not refused for want of an initialize, the list
\* of tools given for tools/list, call_tool entered for a tools/call whose
\* params are an object
Served ==
    /\ last.code # -32002
    /\ last.method = "tools/list" => (last.code = 0 /\ last.result = Tools(mcp.name))
    /\ (last.method = "tools/call" /\ last.object) => last.called

\* C29: a tools/list or tools/call that comes before any initialize is
\* answered with error -32002 and runs no tool; once an initialize has been
\* handled every later tools/list and tools/call is served; and the
\* initialized flag, once true, stays true.
C29_InitializeGate ==
    /\ [](ToolRequestAnswered =>
            IF last.was
            THEN Served
            ELSE last.code = -32002 /\ ~last.called /\ last.executed = "none")
    /\ [][(~mcp.initialized /\ UNCHANGED mcp) => memory' = memory]_vars
    /\ [][mcp.initialized => mcp'.initialized]_vars

C29_Witness ==
    /\ ToolRequestAnswered
    /\ last.was
    /\ last.method = "tools/call"
    /\ last.executed = "memory_store"
    /\ memory # {}

====
